---- MODULE Spec2Model ----
(***************************************************************************)
(* imagefinder-django-pexels: the search view (imagefinderapp/views.py)    *)
(* and the Pexels search client (imagefinderapp/models.py).                *)
(*                                                                         *)
(* Text that the code treats character by character (the user's query and  *)
(* the query string of the outbound URL) is a sequence of one-character    *)
(* strings.  A Python dict is a function whose DOMAIN is its key set, so   *)
(* d['k'] raises KeyError exactly when "k" \notin DOMAIN d.                 *)
(***************************************************************************)
EXTENDS Integers, Sequences, FiniteSets, TLC

VARIABLES
    environ,    \* os.environ, restricted to PEXELS_API_KEY
    db,         \* rows of the imagefinderapp_pexelsimage table
    request,    \* the request the view handled last
    searched,   \* the last call of PexelsImage.search: arguments and result
    sent,       \* outbound HTTP requests issued by the last operation
    outcome     \* what the view did with the last request

vars == <<environ, db, request, searched, sent, outcome>>

-----------------------------------------------------------------------------
(* Bounds *)

MaxPhotos == 2      \* photo objects in one API response
MaxQueryLen == 3    \* characters in a query

-----------------------------------------------------------------------------
(* Python values *)

NoException == "None"

PyNone == [isNone |-> TRUE, value |-> ""]
PyStr(s) == [isNone |-> FALSE, value |-> s]

\* f'{x}': str(None) is 'None', a string is itself
FString(x) == IF x.isNone THEN "None" ELSE x.value

Return(v) == [raised |-> NoException, status |-> 0, value |-> v]
Raise(exc) == [raised |-> exc, status |-> 0, value |-> <<>>]

ApiKeyName == "PEXELS_API_KEY"

\* os.environ.get(name): the value, or None when the variable is not set
os_environ_get_misspelt(env, name) == PyNone
os_environ_get(env, name) ==
    IF name \in DOMAIN env THEN PyStr(env[name]) ELSE PyNone

-----------------------------------------------------------------------------
(* The outbound URL: f'https://api.pexels.com/v1/search?query={query}'     *)

Endpoint == "https://api.pexels.com/v1/search"

QueryParam == <<"q", "u", "e", "r", "y">>

\* the f-string puts the characters of query, as they are, after "?query="
SearchURL(query) ==
    [endpoint |-> Endpoint, querystring |-> QueryParam \o <<"=">> \o query]

HexDigits == {"0", "2", "a"}

\* requests.get requotes the URL before sending: a space becomes %20; the
\* reserved characters & # = + and % are left as they are.
RECURSIVE Requote(_)
Requote(s) ==
    IF s = <<>> THEN <<>>
    ELSE IF Head(s) = " " THEN <<"%", "2", "0">> \o Requote(Tail(s))
    ELSE <<Head(s)>> \o Requote(Tail(s))

\* index of the first c in s, or 0
RECURSIVE Find(_, _, _)
Find(s, c, i) ==
    IF i > Len(s) THEN 0
    ELSE IF s[i] = c THEN i
    ELSE Find(s, c, i + 1)

\* the part of the URL from "#" on is the fragment and is never transmitted
StripFragment(s) ==
    LET i == Find(s, "#", 1)
    IN IF i = 0 THEN s ELSE SubSeq(s, 1, i - 1)

\* the endpoint splits the query string into its "&"-separated pieces
RECURSIVE SplitAmp(_)
SplitAmp(s) ==
    LET i == Find(s, "&", 1)
    IN IF i = 0 THEN <<s>>
       ELSE <<SubSeq(s, 1, i - 1)>> \o SplitAmp(SubSeq(s, i + 1, Len(s)))

\* application/x-www-form-urlencoded decoding: "+" is a space, %hh is the
\* byte hh (%20 is a space; any other byte is written "%hh" as one character)
RECURSIVE UrlDecode(_)
UrlDecode(s) ==
    IF s = <<>> THEN <<>>
    ELSE IF Head(s) = "+" THEN <<" ">> \o UrlDecode(Tail(s))
    ELSE IF Head(s) = "%" /\ Len(s) >= 3 /\ s[2] \in HexDigits /\ s[3] \in HexDigits
         THEN <<IF s[2] = "2" /\ s[3] = "0" THEN " " ELSE "%" \o s[2] \o s[3]>>
              \o UrlDecode(SubSeq(s, 4, Len(s)))
    ELSE <<Head(s)>> \o UrlDecode(Tail(s))

\* one piece is name=value, cut at its first "="
ParsePair(piece) ==
    LET i == Find(piece, "=", 1)
    IN IF i = 0 THEN [name |-> UrlDecode(piece), value |-> <<>>]
       ELSE [name |-> UrlDecode(SubSeq(piece, 1, i - 1)),
             value |-> UrlDecode(SubSeq(piece, i + 1, Len(piece)))]

RECURSIVE ParsePieces(_)
ParsePieces(pieces) ==
    IF pieces = <<>> THEN <<>>
    ELSE IF Head(pieces) = <<>> THEN ParsePieces(Tail(pieces))
    ELSE <<ParsePair(Head(pieces))>> \o ParsePieces(Tail(pieces))

\* the parameters the endpoint receives from a GET of url
ReceivedParams(url) ==
    ParsePieces(SplitAmp(StripFragment(Requote(url.querystring))))

\* requests.get(url, headers=headers): one call, one request
OutboundRequestsRetried(url, headers, response) ==
    LET req == [method |-> "GET", url |-> url, headers |-> headers]
    IN IF response.status >= 400 THEN <<req, req>> ELSE <<req>>
OutboundRequests(url, headers, response) ==
    <<[method |-> "GET", url |-> url, headers |-> headers]>>

-----------------------------------------------------------------------------
(* The response of the remote API *)

\* response.raise_for_status(): HTTPError for a 4xx or 5xx status, else nothing
raise_for_status(response) ==
    IF response.status >= 400 /\ response.status < 600
    THEN [raised |-> "HTTPError", status |-> response.status, value |-> <<>>]
    ELSE Return(<<>>)

\* response.json(): the decoded body, or JSONDecodeError
response_json(response) ==
    IF response.body.json THEN Return(response.body.data)
    ELSE Raise("JSONDecodeError")

\* d[k]
GetItem(d, k) == IF k \in DOMAIN d THEN Return(d[k]) ELSE Raise("KeyError")

\* PexelsImage(url=..., previewURL=..., photographer=...): an unsaved instance
PexelsImageSwapped(url, previewURL, photographer) ==
    [url |-> previewURL, previewURL |-> url, photographer |-> photographer]
PexelsImage(url, previewURL, photographer) ==
    [url |-> url, previewURL |-> previewURL, photographer |-> photographer]

\* the table after an instance is constructed: the constructor saves nothing
TableAfterCreate(table, obj) == table \cup {obj}
TableAfterConstruct(table, obj) == table

\* the element expression of the comprehension, its subscripts left to right
BuildImage(photo) ==
    LET u == GetItem(photo, "url")
        s == GetItem(photo, "src")
        t == IF s.raised = NoException THEN GetItem(s.value, "tiny") ELSE s
        p == GetItem(photo, "photographer")
    IN IF u.raised # NoException THEN Raise(u.raised)
       ELSE IF t.raised # NoException THEN Raise(t.raised)
       ELSE IF p.raised # NoException THEN Raise(p.raised)
       ELSE Return(PexelsImage(u.value, t.value, p.value))

\* [PexelsImage(...) for photo in photos]: an exception in any element
\* abandons the whole list
RECURSIVE ListComprehensionSkipping(_)
ListComprehensionSkipping(photos) ==
    IF photos = <<>> THEN Return(<<>>)
    ELSE LET first == BuildImage(Head(photos))
             rest == ListComprehensionSkipping(Tail(photos))
         IN IF first.raised # NoException THEN rest
            ELSE Return(<<first.value>> \o rest.value)
RECURSIVE ListComprehension(_)
ListComprehension(photos) ==
    IF photos = <<>> THEN Return(<<>>)
    ELSE LET first == BuildImage(Head(photos))
         IN IF first.raised # NoException THEN Raise(first.raised)
            ELSE LET rest == ListComprehension(Tail(photos))
                 IN IF rest.raised # NoException THEN rest
                    ELSE Return(<<first.value>> \o rest.value)

RECURSIVE TableAfterAll(_, _)
TableAfterAll(table, objs) ==
    IF objs = <<>> THEN table
    ELSE TableAfterAll(TableAfterConstruct(table, Head(objs)), Tail(objs))

\* PexelsImage.search(query), run against the environment env, the table
\* and the response the remote API gives to the request
PexelsImage_search(query, env, table, response) ==
    LET pexels_api_key == os_environ_get(env, ApiKeyName)
        headers == [Authorization |-> FString(pexels_api_key)]
        url == SearchURL(query)
        out == OutboundRequests(url, headers, response)
        checked == raise_for_status(response)
        data == response_json(response)
        photos == IF data.raised = NoException
                  THEN GetItem(data.value, "photos") ELSE Raise(data.raised)
        images == IF photos.raised = NoException
                  THEN ListComprehension(photos.value) ELSE Raise(photos.raised)
        result == IF checked.raised # NoException THEN checked ELSE images
    IN [called |-> TRUE, query |-> query, key |-> env, response |-> response,
        sent |-> out,
        parsed |-> checked.raised = NoException,
        raised |-> result.raised, status |-> result.status,
        value |-> result.value,
        table |-> TableAfterAll(table, result.value)]

-----------------------------------------------------------------------------
(* The search view: views.search(request) *)

EmptyDict == [k \in {} |-> <<>>]

\* no call of PexelsImage.search was made
NotCalled(env, table) ==
    [called |-> FALSE, query |-> <<>>, key |-> env,
     response |-> [status |-> 0, body |-> [json |-> FALSE, data |-> EmptyDict]],
     sent |-> <<>>, parsed |-> FALSE, raised |-> NoException, status |-> 0,
     value |-> <<>>, table |-> table]

\* request.method == 'POST'
IsSubmissionNotGet(method) == method # "GET"
IsSubmission(method) == method = "POST"

\* PexelsSearchForm(request.POST) and PexelsSearchForm(): forms.py holds one
\* required text field, query
PexelsSearchForm(data) == [is_bound |-> TRUE, data |-> data]
UnboundForm == [is_bound |-> FALSE, data |-> EmptyDict]
is_valid(form) ==
    form.is_bound /\ "query" \in DOMAIN form.data /\ form.data["query"] # <<>>
cleaned_data(form) == [query |-> form.data["query"]]

\* images = PexelsImage.search(query): the name is bound when the call
\* returns; an exception leaves the frame, for the view has no handler
AssignImagesCaught(locals, call) ==
    [raised |-> NoException, status |-> 0,
     locals |-> [form |-> locals.form, query |-> locals.query,
                 images |-> call.value]]
AssignImages(locals, call) ==
    IF call.raised # NoException
    THEN [raised |-> call.raised, status |-> call.status, locals |-> locals]
    ELSE [raised |-> NoException, status |-> 0,
          locals |-> [form |-> locals.form, query |-> locals.query,
                      images |-> call.value]]

\* context = {'form': form, 'images': images}; return render(...): reading a
\* local name that no executed statement bound raises UnboundLocalError
Render(frame, validated) ==
    IF frame.raised # NoException
    THEN [rendered |-> FALSE, raised |-> frame.raised, status |-> frame.status,
          validated |-> validated, form |-> frame.locals.form, images |-> <<>>]
    ELSE IF "images" \notin DOMAIN frame.locals
    THEN [rendered |-> FALSE, raised |-> "UnboundLocalError", status |-> 0,
          validated |-> validated, form |-> frame.locals.form, images |-> <<>>]
    ELSE [rendered |-> TRUE, raised |-> NoException, status |-> 0,
          validated |-> validated, form |-> frame.locals.form,
          images |-> frame.locals.images]

Running(locals) == [raised |-> NoException, status |-> 0, locals |-> locals]

search_view(req, env, table, response) ==
    IF IsSubmission(req.method)
    THEN LET form == PexelsSearchForm(req.data)
         IN IF is_valid(form)
            THEN LET query == cleaned_data(form).query
                     call == PexelsImage_search(query, env, table, response)
                 IN [call |-> call,
                     outcome |-> Render(AssignImages([form |-> form, query |-> query],
                                                     call), TRUE)]
            ELSE [call |-> NotCalled(env, table),
                  outcome |-> Render(Running([form |-> form]), TRUE)]
    ELSE [call |-> NotCalled(env, table),
          outcome |-> Render(Running([form |-> UnboundForm, images |-> <<>>]),
                             FALSE)]

-----------------------------------------------------------------------------
(* Inputs *)

Urls == {"u1", "u2"}
Thumbs == {"t1"}
Photographers == {"p1"}

PhotoKeys == {"url", "src", "photographer"}

\* the src object of a photo always has "original" and may lack "tiny"
SrcObjects ==
    {[k \in K |-> IF k = "tiny" THEN t ELSE "o1"] :
        K \in {{"original"}, {"original", "tiny"}}, t \in Thumbs}

\* a photo object with any subset of the three keys the client reads
PhotoObjects ==
    {[k \in K |-> CASE k = "url" -> u
                    [] k = "src" -> s
                    [] k = "photographer" -> p] :
        K \in SUBSET PhotoKeys, u \in Urls, s \in SrcObjects, p \in Photographers}

SeqsUpTo(S, n) == UNION {[1..k -> S] : k \in 0..n}

NotJson == [json |-> FALSE, data |-> EmptyDict]
Json(d) == [json |-> TRUE, data |-> d]

Bodies ==
    {NotJson, Json(EmptyDict)}
    \cup {Json([photos |-> ps]) : ps \in SeqsUpTo(PhotoObjects, MaxPhotos)}

Statuses == {101, 200, 201, 304, 404, 500}

Responses == [status : Statuses, body : Bodies]

Chars == {"a", " ", "&", "#", "=", "+", "%", "2", "0"}

Queries == SeqsUpTo(Chars, MaxQueryLen) \ {<<>>}

Keys == {"key1", "key2"}

SetKey(k) == [n \in {ApiKeyName} |-> k]
Environs == {EmptyDict} \cup {SetKey(k) : k \in Keys}

GoodPhoto(u) == [url |-> u, src |-> [original |-> "o1", tiny |-> "t1"],
                 photographer |-> "p1"]
NoTinyPhoto == [url |-> "u1", src |-> [original |-> "o1"], photographer |-> "p1"]

\* the responses of the sequential specification: success and failure, every
\* kind of body, photo lists drawn from two good photos and a malformed one
SamplePhotos == {GoodPhoto("u1"), GoodPhoto("u2"), NoTinyPhoto}

SampleBodies ==
    {NotJson, Json(EmptyDict)}
    \cup {Json([photos |-> ps]) : ps \in SeqsUpTo(SamplePhotos, MaxPhotos)}

SampleResponses == [status : {200, 404}, body : SampleBodies]

Methods == {"GET", "POST", "HEAD"}

SampleQueries == {<<>>, <<"a">>, <<"a", " ", "a">>}

FormData == {[k \in K |-> q] : K \in SUBSET {"query"}, q \in SampleQueries}

Requests == [method : Methods, data : FormData]

-----------------------------------------------------------------------------
(* The sequential specification: requests handled one after another, the   *)
(* environment changing in between                                         *)

NoRequest == [method |-> "none", data |-> EmptyDict]
NoOutcome ==
    [rendered |-> FALSE, raised |-> NoException, status |-> 0,
     validated |-> FALSE, form |-> UnboundForm, images |-> <<>>]

Init ==
    /\ environ \in Environs
    /\ db = {}
    /\ request = NoRequest
    /\ searched = NotCalled(environ, db)
    /\ sent = <<>>
    /\ outcome = NoOutcome

HandleRequest ==
    \E req \in Requests, response \in SampleResponses :
        LET r == search_view(req, environ, db, response)
        IN /\ request' = req
           /\ searched' = r.call
           /\ sent' = r.call.sent
           /\ outcome' = r.outcome
           /\ db' = r.call.table
           /\ UNCHANGED environ

SetEnv ==
    \E k \in Keys :
        /\ environ' = SetKey(k)
        /\ UNCHANGED <<db, request, searched, sent, outcome>>

UnsetEnv ==
    /\ environ' = EmptyDict
    /\ UNCHANGED <<db, request, searched, sent, outcome>>

Next == HandleRequest \/ SetEnv \/ UnsetEnv

Spec == Init /\ [][Next]_vars

-----------------------------------------------------------------------------
(* PexelsImage.search as a function of its inputs: the query, the          *)
(* environment and the response are drawn at the start, then it is called  *)

DirectCall == [method |-> "direct", data |-> EmptyDict]

Pending(q, env, response) ==
    [NotCalled(env, {}) EXCEPT !.query = q, !.response = response]

InitSearch ==
    /\ environ \in {EmptyDict, SetKey("key1")}
    /\ db = {}
    /\ request = DirectCall
    /\ \E response \in Responses :
           searched = Pending(<<"a">>, environ, response)
    /\ sent = <<>>
    /\ outcome = NoOutcome

InitQuery ==
    /\ environ = SetKey("key1")
    /\ db = {}
    /\ request = DirectCall
    /\ \E q \in Queries :
           searched = Pending(q, environ,
                              [status |-> 200, body |-> Json([photos |-> <<>>])])
    /\ sent = <<>>
    /\ outcome = NoOutcome

ApplySearch ==
    /\ ~searched.called
    /\ LET call == PexelsImage_search(searched.query, environ, db, searched.response)
       IN /\ searched' = call
          /\ sent' = call.sent
          /\ db' = call.table
    /\ UNCHANGED <<environ, request, outcome>>

SpecSearch == InitSearch /\ [][ApplySearch]_vars

SpecQuery == InitQuery /\ [][ApplySearch]_vars

-----------------------------------------------------------------------------
(* Properties *)

\* the submitted data holds a non-empty query
HasQuery(req) == "query" \in DOMAIN req.data /\ req.data["query"] # <<>>

ValidPost == request.method = "POST" /\ HasQuery(request)
InvalidPost == request.method = "POST" /\ ~HasQuery(request)
NotPost == request.method \in Methods \ {"POST"}

Is2xx(status) == status >= 200 /\ status <= 299

\* the photo object has every key the client reads
WellFormed(photo) ==
    /\ {"url", "src", "photographer"} \subseteq DOMAIN photo
    /\ "tiny" \in DOMAIN photo["src"]

\* the record section 4.2 of the specification maps a photo object to
Mapped(photo) ==
    [url |-> photo["url"], previewURL |-> photo["src"]["tiny"],
     photographer |-> photo["photographer"]]

HasPhotos(response) == response.body.json /\ "photos" \in DOMAIN response.body.data
PhotosOf(response) == response.body.data["photos"]

\* C1: a POST whose form data fails validation (query missing or empty) is
\* handled normally: the view renders a context whose images is the empty
\* list, and no outbound call is made.
C1_InvalidPostRendersEmpty ==
    InvalidPost =>
        /\ outcome.rendered
        /\ outcome.raised = NoException
        /\ outcome.images = <<>>
        /\ ~searched.called
        /\ sent = <<>>

\* C2: a request whose method is not POST, whatever form data it carries,
\* renders an unbound form and an empty images list, without validating the
\* form and without calling PexelsImage.search.
C2_NonPostRendersEmpty ==
    NotPost =>
        /\ outcome.rendered
        /\ ~outcome.form.is_bound
        /\ outcome.images = <<>>
        /\ ~outcome.validated
        /\ ~searched.called
        /\ sent = <<>>

C2_Witness ==
    /\ request.method = "GET"
    /\ HasQuery(request)
    /\ outcome.rendered
    /\ outcome.images = <<>>

\* C3: over one handled request the number of outbound HTTP requests is
\* exactly 1 if the request is a POST with a non-empty query and exactly 0
\* otherwise; a failed remote call is not issued a second time.
C3_OneRequestIffValidPost ==
    request.method \in Methods =>
        Len(sent) = IF ValidPost THEN 1 ELSE 0

C3_Witness ==
    /\ ValidPost
    /\ searched.raised = "HTTPError"
    /\ Len(sent) = 1

\* C4: for a 2xx response whose photos is a sequence of N >= 0 well-formed
\* photo objects, PexelsImage.search returns exactly N records, the i-th
\* built from photos[i] (url, src.tiny, photographer), in the same order,
\* duplicates kept, nothing filtered; N = 0 gives the empty sequence.
C4_MapsEveryPhotoInOrder ==
    (/\ searched.called
     /\ Is2xx(searched.response.status)
     /\ HasPhotos(searched.response)
     /\ \A i \in DOMAIN PhotosOf(searched.response) :
            WellFormed(PhotosOf(searched.response)[i]))
    =>
        /\ searched.raised = NoException
        /\ Len(searched.value) = Len(PhotosOf(searched.response))
        /\ \A i \in DOMAIN PhotosOf(searched.response) :
               searched.value[i] = Mapped(PhotosOf(searched.response)[i])

C4_Witness ==
    /\ searched.called
    /\ Is2xx(searched.response.status)
    /\ HasPhotos(searched.response)
    /\ Len(PhotosOf(searched.response)) = 2
    /\ \A i \in 1..2 : WellFormed(PhotosOf(searched.response)[i])
    /\ PhotosOf(searched.response)[1] # PhotosOf(searched.response)[2]
    /\ Len(searched.value) = 2
    /\ searched.value[1] # searched.value[2]

\* C5: for every response whose status is outside 200..299 (1xx and 3xx as
\* well as 4xx and 5xx) PexelsImage.search fails with an HTTPError carrying
\* that status, the body is not parsed and no records are returned.
C5_NonSuccessStatusIsHTTPError ==
    (searched.called /\ ~Is2xx(searched.response.status)) =>
        /\ searched.raised = "HTTPError"
        /\ searched.status = searched.response.status
        /\ ~searched.parsed
        /\ searched.value = <<>>

\* C6: for a 2xx response whose body lacks photos, or in which a photo
\* object at any position lacks url, src, src.tiny or photographer,
\* PexelsImage.search fails as a whole: no entry is skipped and no records,
\* not even those mapped before the malformed one, are returned.
C6_MalformedResponseFailsWhole ==
    (/\ searched.called
     /\ Is2xx(searched.response.status)
     /\ searched.response.body.json
     /\ \/ ~HasPhotos(searched.response)
        \/ \E i \in DOMAIN PhotosOf(searched.response) :
               ~WellFormed(PhotosOf(searched.response)[i]))
    =>
        /\ searched.raised # NoException
        /\ searched.value = <<>>

C6_Witness ==
    /\ searched.called
    /\ Is2xx(searched.response.status)
    /\ HasPhotos(searched.response)
    /\ Len(PhotosOf(searched.response)) = 2
    /\ WellFormed(PhotosOf(searched.response)[1])
    /\ ~WellFormed(PhotosOf(searched.response)[2])
    /\ searched.raised = "KeyError"
    /\ searched.value = <<>>

\* C7: for every non-empty query (also one holding &, #, =, %, + or a
\* space) PexelsImage.search issues exactly one GET to
\* https://api.pexels.com/v1/search whose query parameter, as the endpoint
\* receives it, is the input string unmodified, with no further parameter.
C7_EndpointReceivesQueryUnmodified ==
    (searched.called /\ searched.query # <<>>) =>
        /\ Len(sent) = 1
        /\ sent[1].method = "GET"
        /\ sent[1].url.endpoint = "https://api.pexels.com/v1/search"
        /\ ReceivedParams(sent[1].url)
               = <<[name |-> <<"q", "u", "e", "r", "y">>, value |-> searched.query]>>

\* C8: for a POST with a valid query the view's outcome is the outcome of
\* PexelsImage.search for that query: a returned list is rendered as it is;
\* a failure is not caught, nothing is rendered and the failure reaches the
\* caller instead of becoming an empty result list.
C8_ViewOutcomeIsSearchOutcome ==
    ValidPost =>
        /\ searched.called
        /\ searched.raised = NoException =>
               /\ outcome.rendered
               /\ outcome.images = searched.value
        /\ searched.raised # NoException =>
               /\ ~outcome.rendered
               /\ outcome.raised = searched.raised
               /\ outcome.status = searched.status
               /\ outcome.images = <<>>

C8_Witness ==
    /\ ValidPost
    /\ searched.raised = "KeyError"
    /\ ~outcome.rendered
    /\ outcome.raised = "KeyError"

\* the text of PEXELS_API_KEY in env, 'None' when it is not set
KeyText(env) == IF "PEXELS_API_KEY" \in DOMAIN env THEN env["PEXELS_API_KEY"] ELSE "None"

\* C9: every call of PexelsImage.search reads PEXELS_API_KEY afresh: the
\* Authorization header of its request is the value the variable has when
\* the call starts, whatever it was during earlier calls; when the variable
\* is not set the request is still sent, with the placeholder 'None'.
C9_KeyReadAtEveryCall ==
    [][(searched'.called /\ searched' # searched) =>
           /\ Len(sent') = 1
           /\ sent'[1].headers.Authorization = KeyText(environ)
           /\ environ' = environ]_vars

C9_Witness ==
    /\ searched.called
    /\ "PEXELS_API_KEY" \notin DOMAIN searched.key
    /\ Len(sent) = 1
    /\ sent[1].headers.Authorization = "None"
    /\ environ # searched.key

\* C10: after any sequence of handled requests the PexelsImage table is
\* unchanged (nothing is saved), and the images rendered for a request are
\* built from the photos of that request's own API response.
C10_NothingSavedNothingCarriedOver ==
    /\ db = {}
    /\ outcome.rendered =>
           \A i \in DOMAIN outcome.images :
               /\ searched.called
               /\ HasPhotos(searched.response)
               /\ i \in DOMAIN PhotosOf(searched.response)
               /\ outcome.images[i] = Mapped(PhotosOf(searched.response)[i])

C10_Witness ==
    /\ db = {}
    /\ outcome.rendered
    /\ Len(outcome.images) = 2
    /\ searched.called

====
